---- MODULE Spec2Model ----
(***************************************************************************)
(* Job lifecycle of benefice (src/job.rs): Job::spawn (port allocation,    *)
(* network namespace provisioning, NAT programming, runtime launch, start  *)
(* of the cleanup task) and Job::kill.                                     *)
(*                                                                         *)
(* spawn is an async fn: every `.await` on an external command is a        *)
(* suspension point, so each command is one step of the call and the       *)
(* steps of concurrent calls interleave.  The code between two awaits      *)
(* runs without interruption and belongs to the step that follows it.      *)
(***************************************************************************)
EXTENDS Integers, Sequences, FiniteSets, TLC

\* ------------------------------------------------------------------ bounds

\* Longest list of logical ports a caller requests.
MaxPorts == 2
\* Largest word drawn from the random number generator (reduced modulo the
\* range length by the code).
MaxRnd == 2
\* Number of spawn calls of the multi-call specification.
MaxCalls == 2
\* Number of provisioning commands of one call that may fail.
MaxCmdFail == 2

\* ------------------------------------------------------- program constants

\* AtomicU16: the counter has 16 bits.
U16 == 65536
\* The amount IP_LSB.fetch_add adds.
LsbStep == 2

None == "none"

\* ------------------------------------------------------------------ inputs

LogicalPorts == {80, 443}

\* Every list of at most n logical ports (duplicates included).
RECURSIVE ListsUpTo(_)
ListsUpTo(n) ==
    IF n = 0 THEN {<<>>}
    ELSE LET shorter == ListsUpTo(n - 1)
         IN  shorter \cup {Append(s, p) : s \in {t \in shorter : Len(t) = n - 1},
                                          p \in LogicalPorts}

PortLists == ListsUpTo(MaxPorts)

\* Allocation ranges [start, end): an empty one, one whose start exceeds its
\* end (also empty for Range<u16>), and non-empty ones.
Ranges ==
    {[start |-> 30000, end |-> 30000 + n] : n \in 0..(MaxPorts + 1)}
    \cup {[start |-> 30002, end |-> 30000]}

\* Ports that `ss` may report as listening: the ports of the ranges and one
\* port outside every range.
HostPorts == (30000..(30000 + MaxPorts)) \cup {22}

Workloads ==
    {[kind |-> "Drawbridge"], [kind |-> "Upload"]}

\* What the callers and the host may present to the calls of one run: the
\* lists of requested ports, the workloads, the sets of listening ports the
\* `ss` query may report, and the outcomes (TRUE = success) of the external
\* commands and of closing a handle, and the words the random number
\* generator may return.
RichEnv ==
    [ports |-> PortLists, workloads |-> Workloads,
     snapshots |-> SUBSET HostPorts, oks |-> BOOLEAN, rnds |-> 0..MaxRnd]

PlainEnv ==
    [ports |-> {<<>>, <<80>>}, workloads |-> {[kind |-> "Drawbridge"]},
     snapshots |-> {{}, {30000}}, oks |-> {TRUE}, rnds |-> 0..MaxRnd]

\* The end-to-end scenario: one logical port 80, the ports 30000 and 30001
\* listening, and a random word for every offset into a range of ten ports.
ScenarioEnv ==
    [ports |-> {<<80>>}, workloads |-> Workloads,
     snapshots |-> {{30000, 30001}}, oks |-> BOOLEAN, rnds |-> 0..9]

\* ------------------------------------------------------------------- state

VARIABLES
    IP_LSB,      \* static IP_LSB: AtomicU16, the next free address-pair base
    port_range,  \* the configured allocation range passed to every spawn
    env,         \* which environment the run has: "rich", "plain", "scenario"
    prior,       \* number of address pairs handed out before the run starts
    call         \* per spawn call: its position, locals and the Job it returns

vars == <<IP_LSB, port_range, env, prior, call>>

Env ==
    IF env = "rich" THEN RichEnv
    ELSE IF env = "scenario" THEN ScenarioEnv
    ELSE PlainEnv

Calls == DOMAIN call

\* A call that has not started.  start and lsb are -1 until they are set.
Fresh ==
    [pc |-> "idle", ports |-> <<>>, workload |-> [kind |-> None], used |-> {},
     start |-> -1, mapped |-> <<>>, lsb |-> -1, cmds |-> <<>>,
     nfail |-> 0, why |-> None, destructor |-> None, exec |-> None,
     wasm |-> 0, conf |-> 0, klog |-> <<>>, errs |-> {}, torn |-> FALSE]

\* ---------------------------------------------------------- port allocator

Min(a, b) == IF a < b THEN a ELSE b

\* Range<u16>::len(): 0 when start >= end.
RangeLen(r) == IF r.start < r.end THEN r.end - r.start ELSE 0

\* The iterator a..b.
Iter(a, b) == [i \in 1..(IF a < b THEN b - a ELSE 0) |-> a + i - 1]

\* port_range.start + (next_u32() as usize % port_range.len()) as u16
StartPort(r, rnd) == r.start + (rnd % RangeLen(r))

\* A scan that stops at the end of the range instead of wrapping around.
ScanNoWrap(r, start) == Iter(start, r.end)

\* (start..port_range.end).chain(port_range.start..start)
Scan(r, start) == Iter(start, r.end) \o Iter(r.start, start)

\* A scan that forgets the filter on the used ports.
FreePortsUnfiltered(r, start, used) == Scan(r, start)

\* A filter that keeps the listening ports instead of skipping them.
FreePortsInverted(r, start, used) ==
    SelectSeq(Scan(r, start), LAMBDA p : p \in used)

\* .filter(|p| !used.contains(p))
FreePorts(r, start, used) ==
    SelectSeq(Scan(r, start), LAMBDA p : p \notin used)

\* A zip with the requested port first, which would make it the key.
ZipLogicalFirst(a, b) == [i \in 1..Min(Len(a), Len(b)) |-> <<b[i], a[i]>>]

\* .zip(ports): pairs (scanned host port, requested port), as long as both last.
Zip(a, b) == [i \in 1..Min(Len(a), Len(b)) |-> <<a[i], b[i]>>]

\* .collect::<HashMap<_, _>>(): the first component is the key; a later pair
\* replaces an earlier pair with the same key.
Collect(pairs) ==
    LET keys == {pairs[i][1] : i \in DOMAIN pairs}
        last(k) == CHOOSE i \in DOMAIN pairs :
                       /\ pairs[i][1] = k
                       /\ \A j \in DOMAIN pairs : pairs[j][1] = k => j <= i
    IN  [k \in keys |-> pairs[last(k)][2]]

MapPorts(r, start, used, ports) ==
    Collect(Zip(FreePorts(r, start, used), ports))

\* ------------------------------------------------------ address allocation

\* A counter advanced by one address instead of one pair.
FetchAddOne(v) == (v + 1) % U16

\* A counter advanced by three addresses.
FetchAddOdd(v) == (v + LsbStep + 1) % U16

\* IP_LSB.fetch_add(2, SeqCst) on an AtomicU16 wraps around.
FetchAdd(v) == (v + LsbStep) % U16

\* Ipv4Addr::new(192, 168, lsb >> 8, lsb as u8)
HostIp(lsb) == <<192, 168, lsb \div 256, lsb % 256>>

\* Ipv4Addr::new(192, 168, lsb >> 8, lsb as u8 + 1)
GuestIp(lsb) == <<192, 168, lsb \div 256, (lsb % 256) + 1>>

\* format!("{id}-host"), format!("{id}-guest"); the job id of call c is c.
HostIface(id) == <<id, "-host">>
GuestIface(id) == <<id, "-guest">>

\* ------------------------------------------------------- external commands

Ip(kind, args) == [tool |-> "ip", kind |-> kind, args |-> args]
Iptables(kind, args) == [tool |-> "iptables", kind |-> kind, args |-> args]

\* Command::new(ss).arg("-ltnH")
CmdSs == [tool |-> "ss", kind |-> "used_ports", args |-> <<"-ltnH">>]

CmdNetnsAdd(id) == Ip("netns_add", <<"netns", "add", id>>)
CmdLinkAdd(id) ==
    Ip("link_add", <<"link", "add", HostIface(id), "type", "veth", "peer",
                     "name", GuestIface(id)>>)
CmdLinkSetNetns(id) ==
    Ip("link_set_netns", <<"link", "set", GuestIface(id), "netns", id>>)
CmdAddrAddHost(id, lsb) ==
    Ip("addr_add_host", <<"addr", "add", <<HostIp(lsb), "/24">>, "dev",
                          HostIface(id)>>)
CmdHostUp(id) ==
    Ip("host_up", <<"link", "set", "dev", HostIface(id), "up">>)
CmdLoUp(id) ==
    Ip("lo_up", <<"netns", id, "ip", "link", "set", "dev", "lo", "up">>)
CmdAddrAddGuest(id, lsb) ==
    Ip("addr_add_guest", <<"netns", id, "ip", "addr", "add", GuestIp(lsb),
                           "dev", GuestIface(id)>>)
CmdGuestUp(id) ==
    Ip("guest_up", <<"netns", id, "ip", "link", "set", GuestIface(id), "up">>)
CmdRouteAdd(id, lsb) ==
    Ip("route_add", <<"netns", id, "ip", "route", "add", "default", "via",
                      HostIp(lsb)>>)
CmdMasqLocal ==
    Iptables("masq_local", <<"-t", "nat", "-A", "POSTROUTING", "-s",
                             "127.0.0.1", "-j", "MASQUERADE">>)
CmdMasqOut ==
    Iptables("masq_out", <<"-t", "nat", "-A", "POSTROUTING", "!", "-s",
                           "127.0.0.1", "-o", "net_device", "-j",
                           "MASQUERADE">>)
CmdFwdGuestHost(id) ==
    Iptables("fwd_guest_host", <<"-t", "nat", "-A", "FORWARD", "-i",
                                 GuestIface(id), "-o", HostIface(id), "-j",
                                 "ACCEPT">>)
CmdFwdHostGuest(id) ==
    Iptables("fwd_host_guest", <<"-t", "nat", "-A", "FORWARD", "-i",
                                 HostIface(id), "-o", GuestIface(id), "-j",
                                 "ACCEPT">>)
\* One iteration of `for (host, guest) in &mapped`.
\* A DNAT rule that matches the guest port instead of the host port.
CmdDnatGuestPort(id, lsb, host, guest) ==
    [tool |-> "iptables", kind |-> "dnat", host |-> host, guest |-> guest,
     args |-> <<"-t", "nat", "-A", "PREROUTING", "-p", "tcp", "-i",
                HostIface(id), "--dport", guest, "-j", "DNAT",
                "--to-destination", <<GuestIp(lsb), guest>>>>]

CmdDnat(id, lsb, host, guest) ==
    [tool |-> "iptables", kind |-> "dnat", host |-> host, guest |-> guest,
     args |-> <<"-t", "nat", "-A", "PREROUTING", "-p", "tcp", "-i",
                HostIface(id), "--dport", host, "-j", "DNAT",
                "--to-destination", <<GuestIp(lsb), guest>>>>]
\* A forward rule that matches the host port instead of the guest port.
CmdForwardHostPort(id, lsb, host, guest) ==
    [tool |-> "iptables", kind |-> "forward", host |-> host, guest |-> guest,
     args |-> <<"-A", "FORWARD", "-p", "tcp", "-d", GuestIp(lsb), "--dport",
                host, "-m", "state", "--state", "NEW,ESTABLISHED,RELATED",
                "-j", "ACCEPT">>]

CmdForward(id, lsb, host, guest) ==
    [tool |-> "iptables", kind |-> "forward", host |-> host, guest |-> guest,
     args |-> <<"-A", "FORWARD", "-p", "tcp", "-d", GuestIp(lsb), "--dport",
                guest, "-m", "state", "--state", "NEW,ESTABLISHED,RELATED",
                "-j", "ACCEPT">>]
CmdLaunch(w) ==
    [tool |-> "enarx", kind |-> "launch",
     args |-> IF w.kind = "Drawbridge"
              THEN <<"deploy", "slug">>
              ELSE <<"run", "--wasmcfgfile", "/app/Enarx.toml",
                     "/app/main.wasm">>]

\* ------------------------------------------------------------------- spawn

\* A spawn that provisions the network whether or not ports were requested.
FirstStepAlwaysPorts(ports) == "used_ports"

\* `if port_count > 0 { .. } else { Default::default() }`: with no requested
\* port the whole block is skipped and the next step is the launch.
FirstStep(ports) == IF Len(ports) > 0 THEN "used_ports" ELSE "launch"

\* The call starts: the requested ports are collected and counted.
Spawn(c) ==
    /\ call[c].pc = "idle"
    /\ \E ports \in Env.ports, w \in Env.workloads :
          call' = [call EXCEPT ![c] =
                      [@ EXCEPT !.ports = ports, !.workload = w,
                                !.pc = FirstStep(ports)]]
    /\ UNCHANGED <<IP_LSB, port_range, env, prior>>

\* `used_ports(ss).await?`, the allocation, the `mapped.len() < port_count`
\* check and the conversion of the `ip` path, for a call j: q is the outcome
\* of the query, used its result, rnd the random word, utf8 the outcome of
\* to_str().  `% port_range.len()` panics on an empty range.
AfterUsedPorts(j, r, q, used, rnd, utf8) ==
    LET k == [j EXCEPT !.cmds = Append(@, CmdSs)]
    IN  IF ~q THEN [k EXCEPT !.pc = "Err500", !.why = "used_ports"]
        ELSE IF RangeLen(r) = 0 THEN [k EXCEPT !.pc = "Panic", !.used = used]
        ELSE LET start == StartPort(r, rnd)
                 mapped == MapPorts(r, start, used, j.ports)
             IN  IF Cardinality(DOMAIN mapped) < Len(j.ports)
                 THEN [k EXCEPT !.pc = "Err503", !.used = used,
                                !.start = start]
                 ELSE IF ~utf8
                 THEN [k EXCEPT !.pc = "Err500", !.why = "ip_command",
                                !.used = used, !.start = start]
                 ELSE [k EXCEPT !.pc = "netns_add", !.used = used,
                                !.start = start, !.mapped = mapped]

UsedPorts(c) ==
    /\ call[c].pc = "used_ports"
    /\ \E q \in Env.oks, used \in Env.snapshots, rnd \in Env.rnds,
          utf8 \in BOOLEAN :
          call' = [call EXCEPT ![c] =
                      AfterUsedPorts(@, port_range, q, used, rnd, utf8)]
    /\ UNCHANGED <<IP_LSB, port_range, env, prior>>

\* A command whose failure makes spawn return the internal error.
RunCmdOrFail(j, cmd, ok, next) ==
    [j EXCEPT !.cmds = Append(@, cmd),
              !.nfail = IF ok THEN @ ELSE @ + 1,
              !.pc = IF ok THEN next ELSE "Err500"]

\* `_ = Command::new(..).args(..).output().await.map_err(..)`: the command
\* runs, its outcome is logged and dropped, the call goes on.
RunCmd(j, cmd, ok, next) ==
    [j EXCEPT !.cmds = Append(@, cmd),
              !.nfail = IF ok THEN @ ELSE @ + 1,
              !.pc = next]

\* The outcomes a command of call j may have: MaxCmdFail caps the failures.
Outcomes(j) == {ok \in Env.oks : ok \/ j.nfail < MaxCmdFail}

Step(c, here, next, cmd) ==
    /\ call[c].pc = here
    /\ \E ok \in Outcomes(call[c]) :
          call' = [call EXCEPT ![c] = RunCmd(@, cmd, ok, next)]
    /\ UNCHANGED <<IP_LSB, port_range, env, prior>>

NetnsAdd(c) == Step(c, "netns_add", "link_add", CmdNetnsAdd(c))
LinkAdd(c) == Step(c, "link_add", "link_set_netns", CmdLinkAdd(c))
LinkSetNetns(c) == Step(c, "link_set_netns", "addr_add_host", CmdLinkSetNetns(c))

\* `let lsb = IP_LSB.fetch_add(2, Ordering::SeqCst)` and the command that
\* assigns the host address.
AddrAddHost(c) ==
    /\ call[c].pc = "addr_add_host"
    /\ IP_LSB' = FetchAdd(IP_LSB)
    /\ \E ok \in Outcomes(call[c]) :
          call' = [call EXCEPT ![c] =
                      RunCmd([@ EXCEPT !.lsb = IP_LSB],
                             CmdAddrAddHost(c, IP_LSB), ok, "host_up")]
    /\ UNCHANGED <<port_range, env, prior>>

HostUp(c) == Step(c, "host_up", "lo_up", CmdHostUp(c))
LoUp(c) == Step(c, "lo_up", "addr_add_guest", CmdLoUp(c))
AddrAddGuest(c) ==
    Step(c, "addr_add_guest", "guest_up", CmdAddrAddGuest(c, call[c].lsb))
GuestUp(c) == Step(c, "guest_up", "route_add", CmdGuestUp(c))
RouteAdd(c) == Step(c, "route_add", "masq_local", CmdRouteAdd(c, call[c].lsb))
MasqLocal(c) == Step(c, "masq_local", "masq_out", CmdMasqLocal)
\* A call that goes from the masquerade rules straight to the per-port loop.
MasqOutThenLoop(c) == Step(c, "masq_out", "dnat", CmdMasqOut)
MasqOut(c) == Step(c, "masq_out", "fwd_guest_host", CmdMasqOut)
FwdGuestHost(c) == Step(c, "fwd_guest_host", "fwd_host_guest", CmdFwdGuestHost(c))
FwdHostGuest(c) == Step(c, "fwd_host_guest", "dnat", CmdFwdHostGuest(c))

\* The entries of `mapped` the loop has not visited yet.
Remaining(j) ==
    DOMAIN j.mapped \ {j.cmds[i].host : i \in {k \in DOMAIN j.cmds :
                                               j.cmds[k].kind = "dnat"}}

\* The loop visits the entries of the HashMap in an unspecified order.
Dnat(c) ==
    /\ call[c].pc = "dnat"
    /\ \E host \in Remaining(call[c]), ok \in Outcomes(call[c]) :
          call' = [call EXCEPT ![c] =
                      RunCmd(@, CmdDnat(c, @.lsb, host, @.mapped[host]), ok,
                             "forward")]
    /\ UNCHANGED <<IP_LSB, port_range, env, prior>>

Forward(c) ==
    /\ call[c].pc = "forward"
    /\ LET j == call[c]
           d == j.cmds[Len(j.cmds)]
       IN  \E ok \in Outcomes(j) :
              call' = [call EXCEPT ![c] =
                          RunCmd(j, CmdForward(c, j.lsb, d.host, d.guest), ok,
                                 IF Remaining(j) = {} THEN "launch"
                                 ELSE "dnat")]
    /\ UNCHANGED <<IP_LSB, port_range, env, prior>>

\* A launch whose failure undoes what the call provisioned.
AfterLaunchRollback(j, ok) ==
    IF ~ok
    THEN [j EXCEPT !.cmds = Append(@, CmdLaunch(j.workload)),
                   !.pc = "Err500", !.why = "launch", !.torn = TRUE]
    ELSE [j EXCEPT !.cmds = Append(@, CmdLaunch(j.workload)),
                   !.exec = "alive", !.destructor = "running",
                   !.pc = "Running"]

\* A launch that starts the cleanup task before it starts the runtime.
AfterLaunchTaskFirst(j, ok) ==
    IF ~ok
    THEN [j EXCEPT !.cmds = Append(@, CmdLaunch(j.workload)),
                   !.destructor = "running",
                   !.pc = "Err500", !.why = "launch"]
    ELSE [j EXCEPT !.cmds = Append(@, CmdLaunch(j.workload)),
                   !.exec = "alive", !.destructor = "running",
                   !.pc = "Running"]

\* cmd.spawn(): on failure spawn returns the internal error; on success the
\* cleanup task is started and the Job is returned.
AfterLaunch(j, ok) ==
    IF ~ok
    THEN [j EXCEPT !.cmds = Append(@, CmdLaunch(j.workload)),
                   !.pc = "Err500", !.why = "launch"]
    ELSE [j EXCEPT !.cmds = Append(@, CmdLaunch(j.workload)),
                   !.exec = "alive", !.destructor = "running",
                   !.pc = "Running"]

Launch(c) ==
    /\ call[c].pc = "launch"
    /\ \E ok \in Env.oks :
          call' = [call EXCEPT ![c] = AfterLaunch(@, ok)]
    /\ UNCHANGED <<IP_LSB, port_range, env, prior>>

\* ------------------------------------------------------------ cleanup task

\* The caller-supplied destructor future, run as a spawned Abortable task:
\* when it runs to completion it tears down what spawn provisioned.
TaskRun(c) ==
    /\ call[c].pc = "Running"
    /\ call[c].destructor = "running"
    /\ call' = [call EXCEPT ![c] =
                   [@ EXCEPT !.destructor = "completed", !.torn = TRUE]]
    /\ UNCHANGED <<IP_LSB, port_range, env, prior>>

\* -------------------------------------------------------------------- kill

\* AbortHandle::abort(): a task that has not completed is cancelled and its
\* future dropped; a completed task is not affected.
Abort(d) == IF d = "running" THEN "aborted" ELSE d

\* A kill that leaves the child alone once the cleanup task has completed.
KillRequestsUnlessCompleted(j) ==
    [j EXCEPT !.destructor = Abort(@),
              !.klog = IF j.destructor = "completed" THEN @ \o <<"abort">>
                       ELSE @ \o <<"abort", "kill">>,
              !.pc = "killing"]

\* A kill that also deletes the namespace of the job.
KillRequestsWithTeardown(j) ==
    [j EXCEPT !.destructor = Abort(@),
              !.klog = @ \o <<"abort", "kill">>,
              !.cmds = Append(@, Ip("netns_del", <<"netns", "del">>)),
              !.pc = "killing"]

\* `self.destructor.abort();` then `self.exec.kill()`, which is awaited.
KillRequests(j) ==
    [j EXCEPT !.destructor = Abort(@),
              !.klog = @ \o <<"abort", "kill">>,
              !.pc = "killing"]

KillBegin(c) ==
    /\ call[c].pc = "Running"
    /\ call' = [call EXCEPT ![c] = KillRequests(@)]
    /\ UNCHANGED <<IP_LSB, port_range, env, prior>>

\* A kill that returns early, before closing the handles, when the process
\* kill fails.
CloseHandlesIfKilled(j, kill_ok, wasm_ok, conf_ok) ==
    IF j.workload.kind = "Upload" /\ kill_ok
    THEN [j EXCEPT !.wasm = @ + 1, !.conf = @ + 1,
                   !.klog = @ \o <<"close_wasm", "close_conf">>,
                   !.errs = @ \cup (IF wasm_ok THEN {} ELSE {"close_wasm"})
                              \cup (IF conf_ok THEN {} ELSE {"close_conf"})]
    ELSE j

\* `if let Workload::Upload { wasm, conf } = self.workload`: both handles are
\* closed, whatever the outcome of the kill and of the first close.
CloseHandles(j, kill_ok, wasm_ok, conf_ok) ==
    IF j.workload.kind = "Upload"
    THEN [j EXCEPT !.wasm = @ + 1, !.conf = @ + 1,
                   !.klog = @ \o <<"close_wasm", "close_conf">>,
                   !.errs = @ \cup (IF wasm_ok THEN {} ELSE {"close_wasm"})
                              \cup (IF conf_ok THEN {} ELSE {"close_conf"})]
    ELSE j

\* What kill hands back to its caller: `()` in every case.
KillReturns(kill_ok, wasm_ok, conf_ok) == "Killed"

\* The kill completes with outcome kill_ok (an error is logged), the handles
\* are closed, and the Job is dropped: the child was built with
\* kill_on_drop(true), so a child that survived is signalled again
\* (outcome drop_ok).
AfterKill(j, kill_ok, wasm_ok, conf_ok, drop_ok) ==
    LET k == [j EXCEPT !.exec = IF kill_ok \/ drop_ok THEN "dead" ELSE @,
                       !.errs = IF kill_ok THEN @ ELSE @ \cup {"kill"}]
    IN  [CloseHandles(k, kill_ok, wasm_ok, conf_ok) EXCEPT
            !.pc = KillReturns(kill_ok, wasm_ok, conf_ok)]

KillFinish(c) ==
    /\ call[c].pc = "killing"
    /\ \E kill_ok \in Env.oks, wasm_ok \in Env.oks, conf_ok \in Env.oks,
          drop_ok \in Env.oks :
          call' = [call EXCEPT ![c] =
                      AfterKill(@, kill_ok, wasm_ok, conf_ok, drop_ok)]
    /\ UNCHANGED <<IP_LSB, port_range, env, prior>>

\* ----------------------------------------------------------- specification

\* The commands of a call with id, address base lsb and mapping `mapped`
\* whose loop visited the host ports in the order `hosts`, up to the launch.
Provisioning(id, lsb, mapped, hosts) ==
    <<CmdNetnsAdd(id), CmdLinkAdd(id), CmdLinkSetNetns(id),
      CmdAddrAddHost(id, lsb), CmdHostUp(id), CmdLoUp(id),
      CmdAddrAddGuest(id, lsb), CmdGuestUp(id), CmdRouteAdd(id, lsb),
      CmdMasqLocal, CmdMasqOut, CmdFwdGuestHost(id), CmdFwdHostGuest(id)>>
    \o [i \in 1..(2 * Len(hosts)) |->
          LET h == hosts[(i + 1) \div 2]
          IN  IF i % 2 = 1 THEN CmdDnat(id, lsb, h, mapped[h])
              ELSE CmdForward(id, lsb, h, mapped[h])]

\* The first job the process spawned, still running: it asked for port 80,
\* was given host port 30000 and the address base 0.
FirstJob ==
    [Fresh EXCEPT !.pc = "Running", !.ports = <<80>>,
                  !.workload = [kind |-> "Drawbridge"], !.start = 30000,
                  !.mapped = (30000 :> 80), !.lsb = 0,
                  !.cmds = <<CmdSs>>
                           \o Provisioning(0, 0, (30000 :> 80), <<30000>>)
                           \o <<CmdLaunch([kind |-> "Drawbridge"])>>,
                  !.exec = "alive", !.destructor = "running"]

\* One spawn call (and the life of its Job) of a fresh process, for every
\* range, request, snapshot and command outcome.
Init ==
    /\ IP_LSB = 0
    /\ prior = 0
    /\ port_range \in Ranges
    /\ env = "rich"
    /\ call = [c \in {1} |-> Fresh]

\* MaxCalls calls that may run concurrently, in a fresh process ...
InitFresh ==
    /\ IP_LSB = 0
    /\ prior = 0
    /\ port_range = [start |-> 30000, end |-> 30002]
    /\ env = "plain"
    /\ call = [c \in 1..MaxCalls |-> Fresh]

\* ... or in a process whose first job (call 0) is still running and that
\* has since spawned and killed jobs until one address base is left below
\* the 16-bit limit.
InitLate ==
    /\ IP_LSB = U16 - LsbStep
    /\ prior = (U16 \div LsbStep) - 1
    /\ port_range = [start |-> 30000, end |-> 30002]
    /\ env = "plain"
    /\ call = [c \in 0..MaxCalls |-> IF c = 0 THEN FirstJob ELSE Fresh]

InitMulti == InitFresh \/ InitLate

\* One spawn call of the end-to-end scenario: the range [30000, 30010).
InitScenario ==
    /\ IP_LSB = 0
    /\ prior = 0
    /\ port_range = [start |-> 30000, end |-> 30010]
    /\ env = "scenario"
    /\ call = [c \in {1} |-> Fresh]

Next ==
    \/ \E c \in Calls : Spawn(c)
    \/ \E c \in Calls : UsedPorts(c)
    \/ \E c \in Calls : NetnsAdd(c)
    \/ \E c \in Calls : LinkAdd(c)
    \/ \E c \in Calls : LinkSetNetns(c)
    \/ \E c \in Calls : AddrAddHost(c)
    \/ \E c \in Calls : HostUp(c)
    \/ \E c \in Calls : LoUp(c)
    \/ \E c \in Calls : AddrAddGuest(c)
    \/ \E c \in Calls : GuestUp(c)
    \/ \E c \in Calls : RouteAdd(c)
    \/ \E c \in Calls : MasqLocal(c)
    \/ \E c \in Calls : MasqOut(c)
    \/ \E c \in Calls : FwdGuestHost(c)
    \/ \E c \in Calls : FwdHostGuest(c)
    \/ \E c \in Calls : Dnat(c)
    \/ \E c \in Calls : Forward(c)
    \/ \E c \in Calls : Launch(c)
    \/ \E c \in Calls : TaskRun(c)
    \/ \E c \in Calls : KillBegin(c)
    \/ \E c \in Calls : KillFinish(c)

Spec == Init /\ [][Next]_vars

SpecMulti == InitMulti /\ [][Next]_vars

\* One call, either of the end-to-end scenario or as in Spec.
SpecScenario == (Init \/ InitScenario) /\ [][Next]_vars

\* ------------------------------------------------------------------ claims

\* The ports of the range [start, end).
RangePorts(r) == {p \in r.start..(r.end - 1) : TRUE}

\* Number of ports of the range that are not in the snapshot.
FreeCount(r, used) == Cardinality(RangePorts(r) \ used)

\* spawn returned a Job for this call.
HasJob(j) == j.pc \in {"Running", "killing", "Killed"}

\* The call requested ports and its `ss` query returned a snapshot.
SnapshotTaken(j) ==
    /\ Len(j.ports) >= 1
    /\ j.pc \notin {"idle", "used_ports"}
    /\ j.why # "used_ports"

\* The ip and iptables commands among the commands a call has issued.
NetCmds(j) ==
    {i \in DOMAIN j.cmds : j.cmds[i].tool \in {"ip", "iptables"}}

\* C1: for N >= 1 requested ports with N <= (free ports of the range), the
\* call does not fail for lack of ports, and the Job it returns maps exactly
\* N host ports, pairwise distinct, all inside [start, end) and none in the
\* snapshot of used ports taken by the call, whatever the random offset.
C1_PortsAllocated ==
    \A c \in Calls :
        LET j == call[c]
            n == Len(j.ports)
            hosts == DOMAIN j.mapped
        IN  (SnapshotTaken(j) /\ n <= FreeCount(port_range, j.used)) =>
               /\ j.pc # "Err503"
               /\ HasJob(j) =>
                     /\ Cardinality(hosts) = n
                     /\ hosts \subseteq RangePorts(port_range)
                     /\ hosts \cap j.used = {}

\* Two requested ports (the same logical port twice), a snapshot that holds
\* a port of the range, and a scan that started past the start of the range.
C1_Witness ==
    \E c \in Calls :
        LET j == call[c]
        IN  /\ HasJob(j)
            /\ Len(j.ports) >= 2
            /\ j.ports[1] = j.ports[2]
            /\ j.used \cap RangePorts(port_range) # {}
            /\ j.start # port_range.start
            /\ Cardinality(DOMAIN j.mapped) = Len(j.ports)

\* C2: for N >= 1 requested ports with N > (free ports of the range), the
\* empty range included, spawn returns the "insufficient ports" error and
\* has created no Job, started no child, issued no ip or iptables command
\* and not advanced the address-pair counter.
C2_InsufficientPorts ==
    \A c \in Calls :
        LET j == call[c]
        IN  (SnapshotTaken(j) /\ Len(j.ports) > FreeCount(port_range, j.used)) =>
               /\ j.pc = "Err503"
               /\ NetCmds(j) = {}
               /\ j.exec = None
               /\ j.destructor = None
               /\ j.lsb = -1
               /\ IP_LSB = 0

\* C3 as stated: the keys of mapped_ports are the requested logical ports
\* and the values are host ports of the range.
C3_KeysAreLogicalPorts ==
    \A c \in Calls :
        LET j == call[c]
        IN  HasJob(j) =>
               /\ DOMAIN j.mapped = {j.ports[i] : i \in DOMAIN j.ports}
               /\ \A k \in DOMAIN j.mapped :
                     j.mapped[k] \in RangePorts(port_range)

\* C3, amended: the keys of mapped_ports are the allocated host ports of the
\* range and the values are the requested logical ports, each as often as
\* it was requested.
C3_KeysAreHostPorts ==
    \A c \in Calls :
        LET j == call[c]
        IN  HasJob(j) =>
               /\ DOMAIN j.mapped \subseteq RangePorts(port_range)
               /\ \A p \in LogicalPorts :
                     Cardinality({h \in DOMAIN j.mapped : j.mapped[h] = p})
                        = Cardinality({i \in DOMAIN j.ports : j.ports[i] = p})
               /\ \A h \in DOMAIN j.mapped : j.mapped[h] \in LogicalPorts

\* A Job for two different logical ports.
C3_Witness ==
    \E c \in Calls :
        LET j == call[c]
        IN  /\ HasJob(j)
            /\ Len(j.ports) >= 2
            /\ j.ports[1] # j.ports[2]
            /\ Cardinality(DOMAIN j.mapped) = Len(j.ports)

\* A job spawned with ports that has not been killed.
Alive(c) == call[c].pc = "Running" /\ Len(call[c].ports) > 0

\* The host and guest address of a job.
AddrPair(j) == <<HostIp(j.lsb), GuestIp(j.lsb)>>

\* C4: no two jobs that are alive at the same time have the same host/guest
\* address pair.
C4_DistinctAddressPairs ==
    \A c1, c2 \in Calls :
        (c1 # c2 /\ Alive(c1) /\ Alive(c2)) =>
            AddrPair(call[c1]) # AddrPair(call[c2])

\* The calls made in the run (call 0, when present, was made before it).
NewCalls == Calls \ {0}

\* The call requested ports and passed the `mapped.len() < port_count` check.
PassedAllocation(j) == SnapshotTaken(j) /\ j.pc \notin {"Err503", "Panic"}

\* spawn has returned (or panicked).
Returned(j) ==
    j.pc \in {"Running", "killing", "Killed", "Err500", "Err503", "Panic"}

\* The call has been handed an address base by fetch_add.
Handed(j) == j.lsb >= 0

\* C5 as stated: once the calls have returned, with k the number of calls
\* since the start of the process that requested ports and passed port
\* allocation, the counter is 2k modulo 2^16 and the bases handed to the
\* calls of the run are the next ones of 0, 2, 4, ... modulo 2^16.
C5_CounterCountsAllocations ==
    (\A c \in NewCalls : call[c].pc = "idle" \/ Returned(call[c])) =>
        LET P == {c \in NewCalls : PassedAllocation(call[c])}
            k == Cardinality(P)
        IN  /\ IP_LSB = (2 * (prior + k)) % 65536
            /\ \A c \in P : Handed(call[c])
            /\ {call[c].lsb : c \in P}
                   = {(2 * (prior + i)) % 65536 : i \in 0..(k - 1)}

\* C5, amended: in every state of every interleaving, with k the number of
\* calls that have executed the fetch_add, the counter is 2k modulo 2^16 and
\* the bases handed out are 0, 2, ..., 2(k-1) modulo 2^16 (continuing the
\* count of the earlier calls), each to one call; a call that returned has
\* been handed a base if and only if it requested ports, passed port
\* allocation and its `ip` path was valid UTF-8.
C5_CounterCountsProvisionings ==
    LET H == {c \in NewCalls : Handed(call[c])}
        k == Cardinality(H)
    IN  /\ IP_LSB = (2 * (prior + k)) % 65536
        /\ {call[c].lsb : c \in H}
               = {(2 * (prior + i)) % 65536 : i \in 0..(k - 1)}
        /\ \A c1, c2 \in H : c1 # c2 => call[c1].lsb # call[c2].lsb
        /\ \A c \in NewCalls :
              Returned(call[c]) =>
                 (c \in H <=> (PassedAllocation(call[c])
                               /\ call[c].why # "ip_command"))

\* Two calls in flight at the same time, each just handed its base, the
\* counter having wrapped around between them.
C5_Witness ==
    \E c1, c2 \in NewCalls :
        /\ call[c1].pc = "host_up" /\ call[c1].lsb = 65534
        /\ call[c2].pc = "host_up" /\ call[c2].lsb = 0
        /\ IP_LSB = 2

\* C6: kill on a job with an uploaded workload closes the binary handle and
\* the config handle exactly once each, whatever the outcome of the process
\* kill and of closing the binary handle; no handle is closed before kill
\* completes, and kill on a Drawbridge job closes none.
C6_HandlesClosedOnce ==
    \A c \in Calls :
        LET j == call[c]
        IN  /\ j.pc = "Killed" =>
                  IF j.workload.kind = "Upload"
                  THEN j.wasm = 1 /\ j.conf = 1
                  ELSE j.wasm = 0 /\ j.conf = 0
            /\ j.pc # "Killed" => (j.wasm = 0 /\ j.conf = 0)

\* A killed upload job whose process kill failed and whose binary handle
\* failed to close.
C6_Witness ==
    \E c \in Calls :
        LET j == call[c]
        IN  /\ j.pc = "Killed"
            /\ j.workload.kind = "Upload"
            /\ {"kill", "close_wasm"} \subseteq j.errs
            /\ j.wasm = 1 /\ j.conf = 1

\* C7: once kill has been called, the cancellation of the cleanup task and
\* the termination request of the child have both been issued, once each
\* and in that order, whether or not the cleanup task had completed; the
\* cleanup task no longer runs; whatever fails, kill ends in Killed with the
\* failures logged and nothing returned to the caller.
C7_KillAlwaysBoth ==
    \A c \in Calls :
        LET j == call[c]
        IN  /\ j.pc \in {"killing", "Killed"} =>
                  /\ Len(j.klog) >= 2
                  /\ SubSeq(j.klog, 1, 2) = <<"abort", "kill">>
                  /\ \A i \in 3..Len(j.klog) : j.klog[i] \notin {"abort", "kill"}
                  /\ j.destructor \in {"aborted", "completed"}
            /\ j.errs # {} => j.pc = "Killed"
            /\ j.pc \in {"idle", "used_ports", "netns_add", "link_add",
                         "link_set_netns", "addr_add_host", "host_up", "lo_up",
                         "addr_add_guest", "guest_up", "route_add",
                         "masq_local", "masq_out", "fwd_guest_host",
                         "fwd_host_guest", "dnat", "forward", "launch",
                         "Running", "killing", "Killed", "Err500", "Err503",
                         "Panic"}

\* A job killed after its cleanup task had completed, whose process kill
\* failed.
C7_Witness ==
    \E c \in Calls :
        LET j == call[c]
        IN  /\ j.pc = "Killed"
            /\ j.destructor = "completed"
            /\ "kill" \in j.errs
            /\ SubSeq(j.klog, 1, 2) = <<"abort", "kill">>

\* C8: once a job that was given a namespace has been killed, the namespace,
\* the interfaces and the firewall rules provisioned for it are torn down.
\* (Nothing acts on a killed job any more, so what is not torn down when
\* kill completes never is.)
C8_TornDownAfterKill ==
    \A c \in Calls :
        LET j == call[c]
        IN  (j.pc = "Killed" /\ NetCmds(j) # {}) => j.torn

\* A step of kill on call c.
KillStep(c) ==
    \/ call[c].pc = "Running" /\ call'[c].pc = "killing"
    \/ call[c].pc = "killing" /\ call'[c].pc = "Killed"

\* C9: a step of kill changes nothing but the cleanup task, the child, the
\* owned handles and the log: it issues no command, leaves what spawn
\* provisioned as it is, and leaves the counter and the other calls alone.
C9_KillFrame ==
    [][\A c \in Calls :
          KillStep(c) =>
             /\ IP_LSB' = IP_LSB
             /\ call'[c].cmds = call[c].cmds
             /\ call'[c].torn = call[c].torn
             /\ call'[c].lsb = call[c].lsb
             /\ call'[c].mapped = call[c].mapped
             /\ call'[c].nfail = call[c].nfail
             /\ \A d \in Calls \ {c} : call'[d] = call[d]]_vars

\* A killed job with ports whose namespace was never torn down.
C9_Witness ==
    \E c \in Calls :
        LET j == call[c]
        IN  /\ j.pc = "Killed"
            /\ NetCmds(j) # {}
            /\ ~j.torn
            /\ j.destructor = "aborted"
            /\ IP_LSB = 2

\* C10: a spawn with no requested port never runs the used-port query, an
\* ip command or an iptables command and does not take an address base;
\* the launch of the runtime is its only command, and the Job it returns
\* has an empty mapped_ports.
C10_NoPortsNoNetwork ==
    \A c \in Calls :
        LET j == call[c]
        IN  (j.pc # "idle" /\ Len(j.ports) = 0) =>
               /\ j.mapped = <<>>
               /\ j.lsb = -1
               /\ IP_LSB = 0
               /\ \A i \in DOMAIN j.cmds : j.cmds[i].tool = "enarx"
               /\ Len(j.cmds) = (IF j.pc = "launch" THEN 0 ELSE 1)
               /\ j.pc \in {"launch", "Running", "killing", "Killed", "Err500"}

\* A Job returned for a request without ports.
C10_Witness ==
    \E c \in Calls :
        LET j == call[c]
        IN  /\ j.pc = "Running"
            /\ Len(j.ports) = 0
            /\ j.mapped = <<>>
            /\ j.cmds = <<CmdLaunch(j.workload)>>

\* spawn returned an error (or panicked) for this call.
Failed(j) == j.pc \in {"Err500", "Err503", "Panic"}

\* C11: a spawn that fails returns no Job, leaves no child and starts no
\* cleanup task.  When the used-port query fails, the query is the only
\* command the call ran and the counter has not moved.  When the launch
\* fails, every provisioning command the call issued stays issued, the
\* address base stays taken and nothing is torn down.
C11_FailuresYieldNoJob ==
    \A c \in Calls :
        LET j == call[c]
        IN  /\ Failed(j) =>
                  /\ ~HasJob(j)
                  /\ j.exec = None
                  /\ j.destructor = None
                  /\ j.klog = <<>>
            /\ (j.pc = "Err500" /\ j.why = "used_ports") =>
                  /\ j.cmds = <<CmdSs>>
                  /\ NetCmds(j) = {}
                  /\ j.lsb = -1
                  /\ IP_LSB = 0
            /\ (j.pc = "Err500" /\ j.why = "launch") =>
                  /\ j.cmds[Len(j.cmds)] = CmdLaunch(j.workload)
                  /\ ~j.torn
                  /\ Len(j.ports) >= 1 =>
                        /\ NetCmds(j) = 2..(Len(j.cmds) - 1)
                        /\ Cardinality(NetCmds(j))
                               = 13 + 2 * Cardinality(DOMAIN j.mapped)
                        /\ j.lsb = 0
                        /\ IP_LSB = LsbStep

\* The launch failed after the network of a job with two ports was set up.
C11_Witness ==
    \E c \in Calls :
        LET j == call[c]
        IN  /\ j.pc = "Err500"
            /\ j.why = "launch"
            /\ Cardinality(DOMAIN j.mapped) = 2
            /\ Cardinality(NetCmds(j)) = 17
            /\ j.exec = None

\* The host ports for which the call has issued a DNAT rule.
DnatPorts(j) ==
    {j.cmds[i].args[10] : i \in {k \in DOMAIN j.cmds : j.cmds[k].kind = "dnat"}}

\* C12: nothing but a call's own snapshot keeps a host port out of its
\* mapping: two calls may hold the same host port, and when they do the
\* port was in neither call's snapshot; the host ports of simultaneously
\* live jobs need not be pairwise disjoint (C12_Witness is reachable).
C12_SharedPortUnseen ==
    \A c1, c2 \in Calls :
        \A p \in DOMAIN call[c1].mapped \cap DOMAIN call[c2].mapped :
            c1 # c2 => (p \notin call[c1].used /\ p \notin call[c2].used)

\* Two jobs spawned by calls in flight together, both alive, both with a
\* DNAT rule installed for the same host port.
C12_Witness ==
    \E c1, c2 \in NewCalls :
        /\ c1 # c2
        /\ call[c1].pc = "Running" /\ call[c1].exec = "alive"
        /\ call[c2].pc = "Running" /\ call[c2].exec = "alive"
        /\ DOMAIN call[c1].mapped \cap DOMAIN call[c2].mapped # {}
        /\ DnatPorts(call[c1]) \cap DnatPorts(call[c2]) # {}

\* The call requested ports and its loop over the mapping has finished.
PastLoop(j) ==
    /\ Len(j.ports) >= 1
    /\ \/ j.pc \in {"launch", "Running", "killing", "Killed"}
       \/ j.pc = "Err500" /\ j.why = "launch"

\* The positions of the commands of the given kind in the log of a call.
Of(j, kind) == {i \in DOMAIN j.cmds : j.cmds[i].kind = kind}

\* C13: for every pair (host, guest) of the mapping the call issues one
\* DNAT rule, for TCP arriving at the host port on the host interface of
\* the job, to guest_address:guest, and one forward-accept rule for TCP to
\* the guest address and guest port in the states NEW, ESTABLISHED,
\* RELATED; no per-port rule names a port outside the mapping, never more
\* than one per pair, and after the loop there are exactly 2N of them.
C13_PerPortRules ==
    \A c \in Calls :
        LET j == call[c]
            D == Of(j, "dnat")
            F == Of(j, "forward")
            Pairs == {<<h, j.mapped[h]>> : h \in DOMAIN j.mapped}
            DnatFor(h) == {i \in D : j.cmds[i].args[10] = h}
            FwdFor(g) == {i \in F : j.cmds[i].args[8] = g}
        IN  /\ \A i \in D :
                  LET a == j.cmds[i].args
                  IN  /\ a[10] \in DOMAIN j.mapped
                      /\ SubSeq(a, 1, 9) = <<"-t", "nat", "-A", "PREROUTING",
                                             "-p", "tcp", "-i", HostIface(c),
                                             "--dport">>
                      /\ SubSeq(a, 11, 14) = <<"-j", "DNAT", "--to-destination",
                                               <<GuestIp(j.lsb),
                                                 j.mapped[a[10]]>>>>
            /\ \A i \in F :
                  LET a == j.cmds[i].args
                  IN  /\ \E h \in DOMAIN j.mapped : j.mapped[h] = a[8]
                      /\ SubSeq(a, 1, 7) = <<"-A", "FORWARD", "-p", "tcp", "-d",
                                             GuestIp(j.lsb), "--dport">>
                      /\ SubSeq(a, 9, 14) = <<"-m", "state", "--state",
                                              "NEW,ESTABLISHED,RELATED",
                                              "-j", "ACCEPT">>
            /\ \A h \in DOMAIN j.mapped : Cardinality(DnatFor(h)) <= 1
            /\ \A pr \in Pairs :
                  Cardinality(FwdFor(pr[2]))
                     <= Cardinality({h \in DOMAIN j.mapped :
                                        j.mapped[h] = pr[2]})
            /\ PastLoop(j) =>
                  /\ \A h \in DOMAIN j.mapped : Cardinality(DnatFor(h)) = 1
                  /\ \A pr \in Pairs :
                        Cardinality(FwdFor(pr[2]))
                           = Cardinality({h \in DOMAIN j.mapped :
                                             j.mapped[h] = pr[2]})
                  /\ Cardinality(D \cup F)
                         = 2 * Cardinality(DOMAIN j.mapped)
                  /\ Cardinality(DOMAIN j.mapped) = Len(j.ports)

\* A Job with two mapped ports for two different logical ports: four
\* per-port rules.
C13_Witness ==
    \E c \in Calls :
        LET j == call[c]
        IN  /\ j.pc = "Running"
            /\ Cardinality(DOMAIN j.mapped) = 2
            /\ {j.mapped[h] : h \in DOMAIN j.mapped} = {80, 443}
            /\ Cardinality(Of(j, "dnat")) = 2
            /\ Cardinality(Of(j, "forward")) = 2

\* The call is the end-to-end scenario: logical port 80, the range
\* [30000, 30010), the snapshot {30000, 30001}.
IsScenario(j) ==
    /\ port_range = [start |-> 30000, end |-> 30010]
    /\ j.ports = <<80>>
    /\ j.used = {30000, 30001}

\* The call requested one port, a port of the range was free and the call
\* went on to provision.
SinglePort(j) ==
    /\ Len(j.ports) = 1
    /\ SnapshotTaken(j)
    /\ FreeCount(port_range, j.used) >= 1
    /\ j.why # "ip_command"

\* The port a DNAT rule matches (--dport) and the port a forward-accept
\* rule matches (--dport).
DnatDport(cmd) == cmd.args[10]
ForwardDport(cmd) == cmd.args[8]

\* C14 as stated: a call that requested one port and found a free one has
\* one mapping, its host port in the range and outside the snapshot (in
\* [30002, 30010) in the scenario), and after the loop exactly one DNAT
\* rule and exactly one forward-accept rule, each matching that host port.
C14_RulesReferenceHostPort ==
    \A c \in Calls :
        LET j == call[c]
        IN  SinglePort(j) =>
               /\ Cardinality(DOMAIN j.mapped) = 1
               /\ \A h \in DOMAIN j.mapped :
                     /\ h \in RangePorts(port_range) \ j.used
                     /\ IsScenario(j) => h \in 30002..30009
                     /\ PastLoop(j) =>
                           /\ Cardinality(Of(j, "dnat")) = 1
                           /\ Cardinality(Of(j, "forward")) = 1
                           /\ \A i \in Of(j, "dnat") :
                                 DnatDport(j.cmds[i]) = h
                           /\ \A i \in Of(j, "forward") :
                                 ForwardDport(j.cmds[i]) = h

\* C14, amended: a call that requested one port and found a free one has
\* one mapping, its host port in the range and outside the snapshot (in
\* [30002, 30010) in the scenario), and after the loop exactly one DNAT
\* rule, matching that host port and translating to the guest address and
\* the requested port, and exactly one forward-accept rule, matching the
\* guest address and the requested port, not the host port.
C14_DnatReferencesHostPort ==
    \A c \in Calls :
        LET j == call[c]
        IN  SinglePort(j) =>
               /\ Cardinality(DOMAIN j.mapped) = 1
               /\ \A h \in DOMAIN j.mapped :
                     /\ h \in RangePorts(port_range) \ j.used
                     /\ IsScenario(j) => h \in 30002..30009
                     /\ j.mapped[h] = j.ports[1]
                     /\ PastLoop(j) =>
                           /\ Cardinality(Of(j, "dnat")) = 1
                           /\ Cardinality(Of(j, "forward")) = 1
                           /\ \A i \in Of(j, "dnat") :
                                 /\ DnatDport(j.cmds[i]) = h
                                 /\ j.cmds[i].args[14]
                                       = <<GuestIp(j.lsb), j.ports[1]>>
                           /\ \A i \in Of(j, "forward") :
                                 /\ ForwardDport(j.cmds[i]) = j.ports[1]
                                 /\ ForwardDport(j.cmds[i]) # h
                                 /\ j.cmds[i].args[6] = GuestIp(j.lsb)

\* The Job of the scenario, its scan having started at 30005: host port
\* 30005 with its one DNAT rule and one forward-accept rule.
C14_Witness ==
    \E c \in Calls :
        LET j == call[c]
        IN  /\ IsScenario(j)
            /\ j.pc = "Running"
            /\ j.start = 30005
            /\ DOMAIN j.mapped = {30005}
            /\ \E i \in Of(j, "dnat") : DnatDport(j.cmds[i]) = 30005
            /\ \E i \in Of(j, "forward") : ForwardDport(j.cmds[i]) = 80

\* The host ports the loop of a call has visited, in the order of its visits.
Visited(j) ==
    LET d == SelectSeq(j.cmds, LAMBDA cmd : cmd.kind = "dnat")
    IN  [i \in DOMAIN d |-> d[i].args[10]]

\* The commands of a call that are not the launch.
BeforeLaunch(j) == SelectSeq(j.cmds, LAMBDA cmd : cmd.kind # "launch")

\* C15: in every state of a call that requested ports, the commands it has
\* run are, in this order, a prefix of: the used-port query; namespace add,
\* veth add, move of the guest side, host address, host up, loopback up,
\* guest address, guest up, default route; the two masquerade rules; the
\* two forward-accept rules; a DNAT and a forward rule per port; the
\* launch.  The mapping exists before the first ip command, the address
\* base is taken between the move of the guest side and the host address,
\* the launch follows the last per-port rule, and the cleanup task exists
\* only after the launch.
C15_StepOrder ==
    \A c \in Calls :
        LET j == call[c]
            n == Len(BeforeLaunch(j))
            all == <<CmdSs>> \o Provisioning(c, j.lsb, j.mapped, Visited(j))
        IN  Len(j.ports) >= 1 =>
               /\ n <= Len(all)
               /\ BeforeLaunch(j) = SubSeq(all, 1, n)
               /\ n >= 2 => Cardinality(DOMAIN j.mapped) = Len(j.ports)
               /\ Handed(j) <=> n >= 5
               /\ Of(j, "launch") # {} =>
                     /\ Of(j, "launch") = {Len(j.cmds)}
                     /\ n = 14 + 2 * Cardinality(DOMAIN j.mapped)
                     /\ Len(j.cmds) = n + 1
               /\ j.destructor # None => Of(j, "launch") # {}

\* A call inside its loop: the rules of one port are in place, the DNAT rule
\* of the second has just been issued, the launch is still to come.
C15_Witness ==
    \E c \in Calls :
        LET j == call[c]
        IN  /\ j.pc = "forward"
            /\ Len(j.cmds) = 17
            /\ Len(Visited(j)) = 2
            /\ j.destructor = None

\* C16: an ip or iptables command that fails does not end the call: a call
\* with failed commands is never failed for that reason (a failed call was
\* failed by the used-port query, the port allocation, the ip command path
\* or the launch), its commands are the same ones in the same order as
\* without failures, and once the launch has succeeded it has a Job with
\* the complete mapping and the complete provisioning sequence.
C16_CommandFailuresIgnored ==
    \A c \in Calls :
        LET j == call[c]
            all == <<CmdSs>> \o Provisioning(c, j.lsb, j.mapped, Visited(j))
        IN  /\ j.pc = "Err500" => j.why \in {"used_ports", "ip_command", "launch"}
            /\ (j.pc = "Err500" /\ j.why \in {"used_ports", "ip_command"}) =>
                   j.nfail = 0
            /\ j.nfail > 0 =>
                   /\ j.pc \notin {"Err503", "Panic"}
                   /\ BeforeLaunch(j) = SubSeq(all, 1, Len(BeforeLaunch(j)))
            /\ (j.nfail > 0 /\ Of(j, "launch") # {}) =>
                   /\ BeforeLaunch(j) = all
                   /\ Len(all) = 14 + 2 * Len(j.ports)
                   /\ j.pc = "Err500" \/ HasJob(j)
            /\ (j.nfail > 0 /\ HasJob(j)) =>
                   /\ Cardinality(DOMAIN j.mapped) = Len(j.ports)
                   /\ \A i \in DOMAIN j.ports :
                         \E h \in DOMAIN j.mapped : j.mapped[h] = j.ports[i]

\* A Job with two mapped ports returned by a call several of whose commands
\* failed.
C16_Witness ==
    \E c \in Calls :
        LET j == call[c]
        IN  /\ j.pc = "Running"
            /\ j.nfail = MaxCmdFail
            /\ Cardinality(DOMAIN j.mapped) = 2
            /\ Len(j.cmds) = 19

\* The call has drawn the offset of its scan.
Scanned(j) == j.start >= 0

\* Position of port p in the cyclic order of the range that begins at start.
CyclicRank(r, start, p) == (p - start + RangeLen(r)) % RangeLen(r)

\* Number of free ports of the range that come before the free port p in
\* the cyclic order from start.
FreeBefore(r, start, used, p) ==
    Cardinality({q \in RangePorts(r) \ used :
                    CyclicRank(r, start, q) < CyclicRank(r, start, p)})

\* C17: the scan begins at a port of the range, visits every port of the
\* range exactly once in cyclic order, and the mapping consists of the
\* first N free ports of that order, the k-th of them given to the k-th
\* requested port; the call fails for lack of ports exactly when N exceeds
\* the number of free ports of the range, whatever the offset; in no other
\* case does the allocation fail.
C17_CyclicScan ==
    \A c \in Calls :
        LET j == call[c]
            r == port_range
            N == Len(j.ports)
            s == Scan(r, j.start)
        IN  /\ SnapshotTaken(j) =>
                  (j.pc \in {"Err503", "Panic"} <=> N > FreeCount(r, j.used))
            /\ Scanned(j) =>
               /\ j.start \in RangePorts(r)
               /\ Len(s) = RangeLen(r)
               /\ \A i \in DOMAIN s : CyclicRank(r, j.start, s[i]) = i - 1
               /\ \A p \in RangePorts(r) :
                     Cardinality({i \in DOMAIN s : s[i] = p}) = 1
               /\ j.pc = "Err503" <=> N > FreeCount(r, j.used)
               /\ j.mapped # <<>> =>
                     /\ DOMAIN j.mapped
                           = {p \in RangePorts(r) \ j.used :
                                 FreeBefore(r, j.start, j.used, p) < N}
                     /\ \A h \in DOMAIN j.mapped :
                           j.mapped[h]
                              = j.ports[FreeBefore(r, j.start, j.used, h) + 1]

\* A scan of [30000, 30003) that starts at 30001, skips the listening port
\* 30002 and wraps around: 80 gets 30001 and 443 gets 30000.
C17_Witness ==
    \E c \in Calls :
        LET j == call[c]
        IN  /\ port_range = [start |-> 30000, end |-> 30003]
            /\ j.start = 30001
            /\ j.used = {30002}
            /\ j.ports = <<80, 443>>
            /\ j.mapped = (30000 :> 443) @@ (30001 :> 80)
            /\ j.pc = "Running"

\* C18: the cleanup task of a call exists if and only if spawn returned a
\* Job for the call; a call that failed (used-port query, lack of ports,
\* non-UTF-8 ip command path, launch, or the panic on an empty range) has
\* no cleanup task, whether or not it had issued ip and iptables commands,
\* and no call has one before spawn returns.
C18_TaskIffJob ==
    \A c \in Calls :
        LET j == call[c]
        IN  /\ j.destructor # None <=> HasJob(j)
            /\ HasJob(j) => j.destructor \in {"running", "completed", "aborted"}
            /\ Failed(j) => j.destructor = None
            /\ ~Returned(j) => j.destructor = None

\* The launch failed after the network of a job with one port was set up:
\* fifteen ip and iptables commands and no cleanup task.
C18_Witness ==
    \E c \in Calls :
        LET j == call[c]
        IN  /\ j.pc = "Err500"
            /\ j.why = "launch"
            /\ Cardinality(NetCmds(j)) = 15
            /\ j.destructor = None

\* The addresses the `ip addr add` commands of a call assigned to the host
\* side and to the guest side.
HostAssigned(j) == {j.cmds[i].args[3][1] : i \in Of(j, "addr_add_host")}
GuestAssigned(j) == {j.cmds[i].args[6] : i \in Of(j, "addr_add_guest")}

\* C19: the counter is an even number below 2^16 in every state; every
\* base handed to a call is even, so the last octet of the guest address,
\* the low byte of the base plus 1, is at most 255; the host and the guest
\* address of a call are 192.168.(high byte of the base).x, the guest's
\* last octet being the host's plus 1, and these are the addresses the ip
\* commands of the call assign.
C19_CounterEven ==
    /\ IP_LSB \in 0..(U16 - 1)
    /\ IP_LSB % 2 = 0
    /\ \A c \in Calls :
          LET j == call[c]
              h == HostIp(j.lsb)
              g == GuestIp(j.lsb)
          IN  Handed(j) =>
                 /\ j.lsb % 2 = 0
                 /\ \A i \in 1..4 : h[i] \in 0..255 /\ g[i] \in 0..255
                 /\ SubSeq(h, 1, 3) = <<192, 168, j.lsb \div 256>>
                 /\ SubSeq(g, 1, 3) = SubSeq(h, 1, 3)
                 /\ h[4] = j.lsb % 256
                 /\ g[4] = h[4] + 1
                 /\ HostAssigned(j) \subseteq {h}
                 /\ GuestAssigned(j) \subseteq {g}

\* A call handed the last base before the counter wraps: its guest address
\* is 192.168.255.255 and the counter is back at 0.
C19_Witness ==
    \E c \in NewCalls :
        LET j == call[c]
        IN  /\ j.lsb = U16 - LsbStep
            /\ IP_LSB = 0
            /\ HostAssigned(j) = {<<192, 168, 255, 254>>}
            /\ GuestAssigned(j) = {<<192, 168, 255, 255>>}

====
